---- MODULE Spec2Model ----
(***************************************************************************)
(* Pairwise sequence alignment (Needleman-Wunsch / Smith-Waterman) as      *)
(* implemented by SequenceAlignment in src/src/sequence_alignment.py:      *)
(* the score and directional matrices and the multi-solution traceback.    *)
(* Strings are sequences of one-character strings.                         *)
(***************************************************************************)
EXTENDS Integers, Sequences, FiniteSets, TLC

\* Bounds of the model
MaxLen1 == 2
MaxLen2 == 2
MaxN == 2

\* Input domains
Alphabet == {"A", "C"}
Gap == "-"
SubstScores == {-1, 3}
GapPenalties == {-2, 0, 1}
Strategies == {"global", "local"}

\* Substitution tables: one score for A/A and C/C, one for A/C, and -1 for C/A
Tables ==
    {t \in [Alphabet -> [Alphabet -> SubstScores]] :
        t["C"]["C"] = t["A"]["A"] /\ t["C"]["A"] = -1}

VARIABLES seq1, seq2, strategy, gap_penalty, alignments, n,
          score_matrix, directional_matrix, filled,
          pc, max_score, solution_states, solution_sequences, result

vars == <<seq1, seq2, strategy, gap_penalty, alignments, n,
          score_matrix, directional_matrix, filled,
          pc, max_score, solution_states, solution_sequences, result>>

inputs == <<seq1, seq2, strategy, gap_penalty, alignments>>

matrices == <<score_matrix, directional_matrix, filled>>

----------------------------------------------------------------------------
\* Helpers

StringsUpTo(k) == UNION {[1..l -> Alphabet] : l \in 0..k}

Max2(a, b) == IF a >= b THEN a ELSE b

SetMax(S) == CHOOSE x \in S : \A y \in S : y <= x

\* Python / numpy index normalisation: a negative index counts from the end
NormIndex(k, size) == IF k >= 0 THEN k ELSE k + size

ValidIndex(k, size) == NormIndex(k, size) >= 0 /\ NormIndex(k, size) < size

\* s[k] of a Python string (0-based k, negative k allowed)
PyChar(s, k) == s[NormIndex(k, Len(s)) + 1]

----------------------------------------------------------------------------
\* DirectionalCell

DirectionalCell(up, diagonal, left) ==
    [up |-> up, diagonal |-> diagonal, left |-> left,
     num_directions |-> (IF up THEN 1 ELSE 0) + (IF diagonal THEN 1 ELSE 0)
                        + (IF left THEN 1 ELSE 0)]

get_directions(cell) == <<cell.up, cell.diagonal, cell.left>>

----------------------------------------------------------------------------
\* _create_score_and_directional_matrices

Cells(s1, s2) == (0..Len(s1)) \X (0..Len(s2))

\* np.zeros, then the two edge loops (run for either strategy)
EdgeScore(i, j, g) ==
    IF j = 0 /\ i >= 1 THEN i * g
    ELSE IF i = 0 /\ j >= 1 THEN j * g
    ELSE 0

\* EdgeCell with the flags of the two edges exchanged
EdgeCell_Swapped(i, j) ==
    IF j = 0 /\ i >= 1 THEN DirectionalCell(FALSE, FALSE, TRUE)
    ELSE IF i = 0 /\ j >= 1 THEN DirectionalCell(TRUE, FALSE, FALSE)
    ELSE DirectionalCell(FALSE, FALSE, FALSE)

\* np.full(DirectionalCell()), then the two edge loops
EdgeCell(i, j) ==
    IF j = 0 /\ i >= 1 THEN DirectionalCell(TRUE, FALSE, FALSE)
    ELSE IF i = 0 /\ j >= 1 THEN DirectionalCell(FALSE, FALSE, TRUE)
    ELSE DirectionalCell(FALSE, FALSE, FALSE)

\* BestScore that leaves left_score out of the maximum
BestScore_DropsLeft(up_score, diagonal_score, left_score, strat) ==
    LET best == Max2(up_score, diagonal_score)
    IN IF strat = "local" THEN Max2(best, 0) ELSE best

\* best score of the three directions, clamped at 0 for local alignment
BestScore(up_score, diagonal_score, left_score, strat) ==
    LET best == Max2(Max2(up_score, diagonal_score), left_score)
    IN IF strat = "local" THEN Max2(best, 0) ELSE best

\* One iteration of the double loop: cell (i+1, j+1) from 0-based (i, j)
FillCell(m, i, j) ==
    LET sm == m.score
        diagonal_score == sm[<<i, j>>] + alignments[seq1[i + 1]][seq2[j + 1]]
        up_score == sm[<<i, j + 1>>] + gap_penalty
        left_score == sm[<<i + 1, j>>] + gap_penalty
        best_score == BestScore(up_score, diagonal_score, left_score, strategy)
    IN [score |-> [sm EXCEPT ![<<i + 1, j + 1>>] = best_score],
        dir |-> [m.dir EXCEPT ![<<i + 1, j + 1>>] =
                    DirectionalCell(up_score = best_score,
                                    diagonal_score = best_score,
                                    left_score = best_score)]]

\* iterations of the double loop
Iterations == Len(seq1) * Len(seq2)

----------------------------------------------------------------------------
\* _traceback

\* numpy 2-d lookup a[r, c] with negative indices wrapping around
ValidCell(r, c) == ValidIndex(r, Len(seq1) + 1) /\ ValidIndex(c, Len(seq2) + 1)

CellAt(matrix, r, c) ==
    matrix[<<NormIndex(r, Len(seq1) + 1), NormIndex(c, Len(seq2) + 1)>>]

State(posY, posX, s1, s2) == [posY |-> posY, posX |-> posX, seq1 |-> s1, seq2 |-> s2]

\* np.argwhere(score_matrix == max_score): matching cells in row-major order
RECURSIVE ArgWhere(_, _, _)
ArgWhere(sm, v, k) ==
    LET w == Len(seq2) + 1
        c == <<k \div w, k % w>>
    IN IF k >= (Len(seq1) + 1) * w THEN <<>>
       ELSE (IF sm[c] = v THEN <<c>> ELSE <<>>) \o ArgWhere(sm, v, k + 1)

MaxScore(sm, strat) ==
    IF strat = "global" THEN CellAt(sm, -1, -1)
    ELSE SetMax({sm[c] : c \in DOMAIN sm})

StartStates(sm, strat) ==
    IF strat = "global" THEN <<State(Len(seq1), Len(seq2), <<>>, <<>>)>>
    ELSE LET cs == ArgWhere(sm, MaxScore(sm, strat), 0)
         IN [k \in 1..Len(cs) |-> State(cs[k][1], cs[k][2], <<>>, <<>>)]

\* LoopGuard with an off-by-one limit
LoopGuard_Inclusive(states, sequences, limit) ==
    states # <<>> /\ Cardinality(sequences) <= limit

LoopGuard(states, sequences, limit) ==
    states # <<>> /\ Cardinality(sequences) < limit

\* Terminus with the zero-score stop applied to either strategy
Terminus_AnyStrategy(cell, score, strat) ==
    cell.num_directions = 0 \/ score = 0

\* line 114: the popped state ends a path
Terminus(cell, score, strat) ==
    cell.num_directions = 0 \/ (strat = "local" /\ score = 0)

LeftBranch(st) ==
    State(st.posY, st.posX - 1, Append(st.seq1, Gap), Append(st.seq2, PyChar(seq2, -st.posX)))

\* UpBranch taking the symbol seq1[posY - 1] instead of seq1[-posY]
UpBranch_RowSymbol(st) ==
    State(st.posY - 1, st.posX, Append(st.seq1, PyChar(seq1, st.posY - 1)), Append(st.seq2, Gap))

UpBranch(st) ==
    State(st.posY - 1, st.posX, Append(st.seq1, PyChar(seq1, -st.posY)), Append(st.seq2, Gap))

DiagonalBranch(st) ==
    State(st.posY - 1, st.posX - 1, Append(st.seq1, PyChar(seq1, -st.posY)),
          Append(st.seq2, PyChar(seq2, -st.posX)))

\* the branches appended by one expansion, in push order left, up, diagonal
Branches(st, cell) ==
    LET up == get_directions(cell)[1]
        diagonal == get_directions(cell)[2]
        left == get_directions(cell)[3]
    IN (IF left THEN <<LeftBranch(st)>> ELSE <<>>)
       \o (IF up THEN <<UpBranch(st)>> ELSE <<>>)
       \o (IF diagonal THEN <<DiagonalBranch(st)>> ELSE <<>>)

\* an IndexError raised while expanding st
ExpandError(st, cell) ==
    \/ (cell.left \/ cell.diagonal) /\ ~ValidIndex(-st.posX, Len(seq2))
    \/ (cell.up \/ cell.diagonal) /\ ~ValidIndex(-st.posY, Len(seq1))

\* Python order of characters (code points) and of strings and tuples
Ord(c) == CASE c = "-" -> 45 [] c = "A" -> 65 [] c = "C" -> 67

StrLess(s, t) ==
    \E k \in 1..Len(t) :
        /\ \A i \in 1..(k - 1) : i <= Len(s) /\ s[i] = t[i]
        /\ IF k > Len(s) THEN TRUE ELSE Ord(s[k]) < Ord(t[k])

PairLess(p, q) == StrLess(p[1], q[1]) \/ (p[1] = q[1] /\ StrLess(p[2], q[2]))

\* sorted(solution_sequences, reverse=True)
RECURSIVE SortedReverse(_)
SortedReverse(S) ==
    IF S = {} THEN <<>>
    ELSE LET mx == CHOOSE p \in S : \A q \in S \ {p} : PairLess(q, p)
         IN <<mx>> \o SortedReverse(S \ {mx})

----------------------------------------------------------------------------
\* The state machine: find_optimal_alignments up to the return of _traceback

Init ==
    /\ seq1 \in StringsUpTo(MaxLen1)
    /\ seq2 \in StringsUpTo(MaxLen2)
    /\ strategy \in Strategies
    /\ gap_penalty \in GapPenalties
    /\ alignments \in Tables
    /\ n = 0
    /\ score_matrix = <<>>
    /\ directional_matrix = <<>>
    /\ filled = 0
    /\ pc = "create"
    /\ max_score = 0
    /\ solution_states = <<>>
    /\ solution_sequences = {}
    /\ result = <<>>

\* _create_score_and_directional_matrices up to the double loop
CreateEdges ==
    /\ pc = "create"
    /\ score_matrix' = [c \in Cells(seq1, seq2) |-> EdgeScore(c[1], c[2], gap_penalty)]
    /\ directional_matrix' = [c \in Cells(seq1, seq2) |-> EdgeCell(c[1], c[2])]
    /\ filled' = 0
    /\ pc' = IF Iterations = 0 THEN "traceback" ELSE "fill"
    /\ UNCHANGED <<inputs, n, max_score, solution_states, solution_sequences, result>>

\* one iteration of the double loop, in row-major order
FillStep ==
    /\ pc = "fill"
    /\ LET m == FillCell([score |-> score_matrix, dir |-> directional_matrix],
                         filled \div Len(seq2), filled % Len(seq2))
       IN /\ score_matrix' = m.score
          /\ directional_matrix' = m.dir
    /\ filled' = filled + 1
    /\ pc' = IF filled + 1 = Iterations THEN "traceback" ELSE "fill"
    /\ UNCHANGED <<inputs, n, max_score, solution_states, solution_sequences, result>>

\* _traceback(n) up to the while loop
TracebackStart ==
    /\ pc = "traceback"
    /\ n' \in 0..MaxN
    /\ max_score' = MaxScore(score_matrix, strategy)
    /\ solution_states' = StartStates(score_matrix, strategy)
    /\ solution_sequences' = {}
    /\ pc' = "loop"
    /\ UNCHANGED <<inputs, matrices, result>>

TracebackStep ==
    /\ pc = "loop"
    /\ LoopGuard(solution_states, solution_sequences, n)
    /\ LET st == solution_states[Len(solution_states)]
           rest == SubSeq(solution_states, 1, Len(solution_states) - 1)
       IN IF ~ValidCell(st.posY, st.posX)
          THEN /\ pc' = "IndexError"
               /\ solution_states' = rest
               /\ UNCHANGED solution_sequences
          ELSE LET cell == CellAt(directional_matrix, st.posY, st.posX)
                   score == CellAt(score_matrix, st.posY, st.posX)
               IN IF Terminus(cell, score, strategy)
                  THEN /\ solution_sequences' = solution_sequences \cup {<<st.seq1, st.seq2>>}
                       /\ solution_states' = rest
                       /\ pc' = pc
                  ELSE IF ExpandError(st, cell)
                  THEN /\ pc' = "IndexError"
                       /\ solution_states' = rest
                       /\ UNCHANGED solution_sequences
                  ELSE /\ solution_states' = rest \o Branches(st, cell)
                       /\ UNCHANGED <<solution_sequences, pc>>
    /\ UNCHANGED <<inputs, n, matrices, max_score, result>>

TracebackReturn ==
    /\ pc = "loop"
    /\ ~LoopGuard(solution_states, solution_sequences, n)
    /\ result' = SortedReverse(solution_sequences)
    /\ pc' = "done"
    /\ UNCHANGED <<inputs, n, matrices, max_score, solution_states, solution_sequences>>

Next == CreateEdges \/ FillStep \/ TracebackStart \/ TracebackStep \/ TracebackReturn

Spec == Init /\ [][Next]_vars

\* The script before SequenceAlignment is constructed (smith_waterman.py,
\* needleman_wunsch.py): the parameters are not read yet
Start ==
    /\ seq1 = <<>>
    /\ seq2 = <<>>
    /\ strategy = "global"
    /\ gap_penalty = -2
    /\ alignments = [a \in Alphabet |-> [b \in Alphabet |-> 0]]
    /\ n = 0
    /\ score_matrix = <<>>
    /\ directional_matrix = <<>>
    /\ filled = 0
    /\ pc = "start"
    /\ max_score = 0
    /\ solution_states = <<>>
    /\ solution_sequences = {}
    /\ result = <<>>

\* get_parameters and SequenceAlignment.__init__
Construct ==
    /\ pc = "start"
    /\ seq1' \in StringsUpTo(MaxLen1)
    /\ seq2' \in StringsUpTo(MaxLen2)
    /\ strategy' \in Strategies
    /\ gap_penalty' \in GapPenalties
    /\ alignments' \in Tables
    /\ pc' = "create"
    /\ UNCHANGED <<n, matrices, max_score, solution_states, solution_sequences, result>>

RunNext == Construct \/ Next

\* the script is sequential and runs to the return of _traceback
FairSpec == Start /\ [][RunNext]_vars /\ WF_vars(RunNext)

----------------------------------------------------------------------------
\* Reference notions the properties are stated with

\* _create_score_and_directional_matrices has returned
Built == pc \in {"traceback", "loop", "done", "IndexError"}

Prefix(s, k) == SubSeq(s, 1, k)

\* score of one alignment column
ColumnScore(x, y) == IF x = Gap \/ y = Gap THEN gap_penalty ELSE alignments[x][y]

\* column-by-column score of an alignment pair
RECURSIVE AlignmentScore(_)
AlignmentScore(p) ==
    IF Len(p[1]) = 0 THEN 0
    ELSE ColumnScore(Head(p[1]), Head(p[2])) + AlignmentScore(<<Tail(p[1]), Tail(p[2])>>)

\* every gapped alignment of s with t, as a pair of equal-length strings
RECURSIVE GappedAlignments(_, _)
GappedAlignments(s, t) ==
    LET i == Len(s)
        j == Len(t)
    IN IF i = 0 /\ j = 0 THEN {<< <<>>, <<>> >>}
       ELSE (IF i > 0 /\ j > 0
             THEN {<<Append(a[1], s[i]), Append(a[2], t[j])>> :
                       a \in GappedAlignments(Prefix(s, i - 1), Prefix(t, j - 1))}
             ELSE {})
            \cup (IF i > 0
                  THEN {<<Append(a[1], s[i]), Append(a[2], Gap)>> :
                            a \in GappedAlignments(Prefix(s, i - 1), t)}
                  ELSE {})
            \cup (IF j > 0
                  THEN {<<Append(a[1], Gap), Append(a[2], t[j])>> :
                            a \in GappedAlignments(s, Prefix(t, j - 1))}
                  ELSE {})

BestAlignmentScore(s, t) == SetMax({AlignmentScore(a) : a \in GappedAlignments(s, t)})

\* contiguous substrings of s, the empty one included
Runs(s) == {SubSeq(s, a, b) : a \in 1..(Len(s) + 1), b \in 0..Len(s)}

SmithWatermanOptimum ==
    SetMax({0} \cup {BestAlignmentScore(u, v) : u \in Runs(seq1), v \in Runs(seq2)})

NotGap(x) == x # Gap

Strip(s) == SelectSeq(s, NotGap)

Gaps(k) == [i \in 1..k |-> Gap]

Returned == {result[k] : k \in 1..Len(result)}

\* the state popped by the next loop iteration
Popped == solution_states[Len(solution_states)]

Expanding ==
    /\ pc = "loop"
    /\ LoopGuard(solution_states, solution_sequences, n)
    /\ ValidCell(Popped.posY, Popped.posX)
    /\ ~Terminus(CellAt(directional_matrix, Popped.posY, Popped.posX),
                 CellAt(score_matrix, Popped.posY, Popped.posX), strategy)

\* the states pushed by the loop iteration that has just run
Pushed == SubSeq(solution_states', Len(solution_states), Len(solution_states'))

----------------------------------------------------------------------------
\* C1: every alignment pair returned by _traceback(n), n >= 1, scores column
\* by column (substitution score, gap_penalty for a column with a gap) to
\* exactly the optimal score returned with it.
C1_ReturnedPairsScoreOptimal ==
    (pc = "done" /\ n >= 1) => \A p \in Returned : AlignmentScore(p) = max_score

\* C2: with strategy local the returned score is the Smith-Waterman optimum
\* (best gapped alignment over all pairs of contiguous substrings, the empty
\* pair scoring 0), and it is strictly positive when some seq1[i], seq2[j]
\* have a strictly positive substitution score.
C2_LocalScoreIsSmithWaterman ==
    (pc = "done" /\ strategy = "local") =>
        /\ max_score = SmithWatermanOptimum
        /\ (\E i \in 1..Len(seq1), j \in 1..Len(seq2) : alignments[seq1[i]][seq2[j]] > 0)
               => max_score > 0

\* C3: with strategy global every cell (i, j) of the score matrix is the
\* maximum column-wise score over all gapped alignments of the first i
\* symbols of seq1 with the first j symbols of seq2, and the score returned
\* by _traceback is the bottom-right cell.
C3_GlobalMatrixIsOptimal ==
    strategy = "global" =>
        /\ pc = "traceback" =>
               \A c \in Cells(seq1, seq2) :
                   score_matrix[c] = BestAlignmentScore(Prefix(seq1, c[1]), Prefix(seq2, c[2]))
        /\ pc \in {"loop", "done"} =>
               /\ max_score = score_matrix[<<Len(seq1), Len(seq2)>>]
               /\ max_score = BestAlignmentScore(seq1, seq2)

C3_Witness ==
    /\ pc = "done" /\ strategy = "global"
    /\ Len(seq1) = 2 /\ Len(seq2) = 2
    /\ directional_matrix[<<2, 2>>].up /\ ~directional_matrix[<<2, 2>>].diagonal
    /\ max_score = score_matrix[<<2, 2>>]

\* C4: the score matrix has shape (len(seq1)+1, len(seq2)+1), and with
\* strategy local every entry, boundary row and column included, is >= 0.
C4_ShapeAndLocalNonNegative ==
    Built =>
        /\ DOMAIN score_matrix = (0..Len(seq1)) \X (0..Len(seq2))
        /\ strategy = "local" => \A c \in DOMAIN score_matrix : score_matrix[c] >= 0

\* C5: every returned pair has two strings of equal length; without the gap
\* symbol the first is a contiguous run of seq1 and the second one of seq2,
\* and with strategy global they are the whole of seq1 and of seq2.
C5_PairsAreRuns ==
    pc = "done" =>
        \A p \in Returned :
            /\ Len(p[1]) = Len(p[2])
            /\ Strip(p[1]) \in Runs(seq1)
            /\ Strip(p[2]) \in Runs(seq2)
            /\ strategy = "global" => Strip(p[1]) = seq1 /\ Strip(p[2]) = seq2

C5_Witness ==
    /\ pc = "done" /\ strategy = "local"
    /\ \E p \in Returned :
           /\ \E i \in 1..Len(p[1]) : p[1][i] = Gap \/ p[2][i] = Gap
           /\ Strip(p[1]) # seq1
           /\ Strip(p[1]) # <<>>

\* C6: the list returned by _traceback(n) has at most n entries and is
\* strictly decreasing in the lexicographic order of (first, second); for
\* n = 0 it is empty and the score returned is the one the matrix gives for
\* any n.
C6_BoundedSortedResult ==
    pc = "done" =>
        /\ Len(result) <= n
        /\ \A k \in 1..(Len(result) - 1) : PairLess(result[k + 1], result[k])
        /\ n = 0 => result = <<>>
        /\ IF strategy = "global"
           THEN max_score = score_matrix[<<Len(seq1), Len(seq2)>>]
           ELSE /\ \A c \in DOMAIN score_matrix : score_matrix[c] <= max_score
                /\ \E c \in DOMAIN score_matrix : score_matrix[c] = max_score

C6_Witness ==
    /\ pc = "done" /\ n = 2 /\ Len(result) = 2
    /\ solution_states # <<>>

\* C7 as claimed: with an empty seq1 or seq2 and n >= 1, global returns only
\* the pair aligning the non-empty sequence against gaps, without an index
\* error, and local returns an empty list.
C7_EmptySequenceAsClaimed ==
    ((Len(seq1) = 0 \/ Len(seq2) = 0) /\ n >= 1) =>
        /\ pc # "IndexError"
        /\ pc = "done" =>
               IF strategy = "global"
               THEN result = << <<seq1 \o Gaps(Len(seq2)), seq2 \o Gaps(Len(seq1))>> >>
               ELSE result = <<>>

\* C7 amended: with an empty seq1 or seq2 and n >= 1 there is no index
\* error; global returns only the pair aligning the non-empty sequence
\* against gaps; local returns exactly one pair, the pair of empty strings
\* when gap_penalty <= 0 and the all-gap pair when gap_penalty > 0.
C7_EmptySequence ==
    ((Len(seq1) = 0 \/ Len(seq2) = 0) /\ n >= 1) =>
        /\ pc # "IndexError"
        /\ pc = "done" =>
               IF strategy = "global" \/ gap_penalty > 0
               THEN result = << <<seq1 \o Gaps(Len(seq2)), seq2 \o Gaps(Len(seq1))>> >>
               ELSE result = << << <<>>, <<>> >> >>

C7_Witness ==
    /\ pc = "done" /\ strategy = "local" /\ n >= 1 /\ gap_penalty < 0
    /\ Len(seq1) = 0 /\ Len(seq2) = 2
    /\ result = << << <<>>, <<>> >> >>

\* the branches section 4.3 describes: each consumes the symbol at the
\* matrix position (seq1[row-1], seq2[col-1], 0-based)
PositionBranches(st, cell) ==
    (IF cell.left
     THEN <<State(st.posY, st.posX - 1, Append(st.seq1, Gap), Append(st.seq2, seq2[st.posX]))>>
     ELSE <<>>)
    \o (IF cell.up
        THEN <<State(st.posY - 1, st.posX, Append(st.seq1, seq1[st.posY]), Append(st.seq2, Gap))>>
        ELSE <<>>)
    \o (IF cell.diagonal
        THEN <<State(st.posY - 1, st.posX - 1, Append(st.seq1, seq1[st.posY]),
                     Append(st.seq2, seq2[st.posX]))>>
        ELSE <<>>)

\* C8: expanding a popped state (row, col, p1, p2) pushes, per flag, left:
\* (row, col-1, p1 + '-', p2 + seq2[col-1]); up: (row-1, col, p1 +
\* seq1[row-1], p2 + '-'); diagonal: (row-1, col-1, p1 + seq1[row-1],
\* p2 + seq2[col-1]).
C8_BranchesConsumePosition ==
    [][Expanding =>
          Pushed = PositionBranches(Popped, CellAt(directional_matrix, Popped.posY, Popped.posX))]_vars

\* C9: with strategy local every cell of row 0 and of column 0 holds score 0
\* and a DirectionalCell with no flag set.
C9_LocalBoundaryIsZero ==
    (strategy = "local" /\ Built) =>
        \A c \in Cells(seq1, seq2) :
            (c[1] = 0 \/ c[2] = 0) =>
                score_matrix[c] = 0 /\ directional_matrix[c].num_directions = 0

PendingInRange ==
    \A k \in 1..Len(solution_states) :
        /\ solution_states[k].posY \in 0..Len(seq1)
        /\ solution_states[k].posX \in 0..Len(seq2)

PushedDescend ==
    Expanding =>
        \A k \in 1..Len(Pushed) : Pushed[k].posY + Pushed[k].posX < Popped.posY + Popped.posX

\* C10: the traceback loop terminates: every pending state keeps
\* 0 <= row <= len(seq1) and 0 <= col <= len(seq2), every pushed branch has
\* row+col strictly smaller than the state it was expanded from, and the
\* loop ends (worklist empty or n completed) with _traceback returning.
C10_TracebackTerminates ==
    /\ []PendingInRange
    /\ [][PushedDescend]_vars
    /\ <>(pc = "done")

C10_Witness ==
    /\ pc = "loop" /\ Len(solution_states) >= 3
    /\ \E k \in 1..Len(solution_states) :
           solution_states[k].posY = 0 /\ solution_states[k].posX > 0

====
